---- MODULE Spec2Model ----
(***************************************************************************)
(* FusionVersionSync: a Fusion 360 add-in that keeps the user parameter    *)
(* "FusionVersion" of the active design equal to the cloud version number  *)
(* of the active document.  The module models the add-in's functions       *)
(* (src/FusionVersionSync.py) over an abstract host: documents with an     *)
(* optional cloud data file, one user-parameter collection per design, the *)
(* active document / product, and the three document events.               *)
(*                                                                         *)
(* Python values are modelled as follows.                                  *)
(*   None-able value : a sequence of length 0 (None) or 1 (the value)      *)
(*   str             : a sequence of one-character strings                 *)
(*   float           : [t |-> "float", n |-> k], the number k * 10^-7;     *)
(*                     nan, inf and -inf have their own tags               *)
(*   int             : [t |-> "int", n |-> k]                              *)
(* A host call that can raise takes the set F of the calls failing during  *)
(* the current uninterrupted stretch of add-in code.                       *)
(***************************************************************************)
EXTENDS Integers, Sequences, FiniteSets, TLC

\* ------------------------------------------------------------------ bounds

\* largest cloud version number the host reports
MaxVersion == 2

\* ------------------------------------------------------- program constants

PARAM_NAME == "FusionVersion"

fast_tries == 8

slow_tries == 30

unit_type == "NoUnits"

COMMENT == "Active file version"

\* the fixed-point format '{0:.6f}' keeps six decimals
FORMAT_DECIMALS == 6

\* ------------------------------------------------------------ Python values

NoneV == << >>

Some(x) == << x >>

IsNone(o) == Len(o) = 0

\* one unit of a float: floats are counted in 10^-7, one decimal more than
\* the fixed-point format keeps, so that its rounding is exercised
Pow10(k) == IF k = 0 THEN 1 ELSE IF k = 1 THEN 10 ELSE IF k = 2 THEN 100
            ELSE IF k = 3 THEN 1000 ELSE IF k = 4 THEN 10000
            ELSE IF k = 5 THEN 100000 ELSE IF k = 6 THEN 1000000
            ELSE 10000000

FloatUnit == Pow10(FORMAT_DECIMALS + 1)

PyInt(k) == [t |-> "int", n |-> k]

PyFloat(k) == [t |-> "float", n |-> k]

PyNaN == [t |-> "nan", n |-> 0]

PyInf == [t |-> "inf", n |-> 0]

PyNegInf == [t |-> "ninf", n |-> 0]

\* a value float() rejects: a non-numeric string, None, an object
PyOther == [t |-> "other", n |-> 0]

Abs(k) == IF k < 0 THEN -k ELSE k

DigitChar(d) == CASE d = 0 -> "0" [] d = 1 -> "1" [] d = 2 -> "2" [] d = 3 -> "3"
                  [] d = 4 -> "4" [] d = 5 -> "5" [] d = 6 -> "6" [] d = 7 -> "7"
                  [] d = 8 -> "8" [] d = 9 -> "9"

RECURSIVE NatStr(_)
NatStr(k) == IF k < 10 THEN << DigitChar(k) >>
             ELSE Append(NatStr(k \div 10), DigitChar(k % 10))

\* str(k) of a Python int
PyStr(k) == IF k < 0 THEN << "-" >> \o NatStr(-k) ELSE NatStr(k)

\* float(value): raises (None here) for a value that is no number
PyToFloat(value) ==
    CASE value.t = "int" -> Some(PyFloat(value.n * FloatUnit))
      [] value.t = "float" -> Some(value)
      [] value.t = "nan" -> Some(value)
      [] value.t = "inf" -> Some(value)
      [] value.t = "ninf" -> Some(value)
      [] OTHER -> NoneV

\* float.is_integer()
IsInteger(f) == f.t = "float" /\ f.n % FloatUnit = 0

\* int(f) of a finite float: truncation towards zero
PyTrunc(f) == IF f.n >= 0 THEN f.n \div FloatUnit ELSE -((-f.n) \div FloatUnit)

RECURSIVE ZeroPad(_, _)
ZeroPad(s, width) == IF Len(s) >= width THEN s ELSE ZeroPad(<< "0" >> \o s, width)

\* '{0:.6f}'.format(f): sign, integer part, point, six decimals; the seventh
\* decimal is rounded half to even
FormatDigits(neg, m) ==
    (IF neg THEN << "-" >> ELSE << >>)
        \o NatStr(m \div Pow10(FORMAT_DECIMALS)) \o << "." >>
        \o ZeroPad(NatStr(m % Pow10(FORMAT_DECIMALS)), FORMAT_DECIMALS)

RoundHalfEven(q, r) == IF r > 5 \/ (r = 5 /\ q % 2 = 1) THEN q + 1 ELSE q

FormatFixed(f) == FormatDigits(f.n < 0, RoundHalfEven(Abs(f.n) \div 10, Abs(f.n) % 10))

\* str.rstrip(c)
RECURSIVE RStrip(_, _)
RStrip(s, c) == IF Len(s) > 0 /\ s[Len(s)] = c
                THEN RStrip(SubSeq(s, 1, Len(s) - 1), c) ELSE s

\* lines 54-55: an empty expression becomes "0"
NonEmpty(e) == IF e = << >> THEN << "0" >> ELSE e

\* a variant that renders an integer-like value as str(f) does ("7.0")
NormalizeFloatRepr(f) ==
    IF f.t = "nan" \/ f.t = "inf" \/ f.t = "ninf"
    THEN [expr |-> NoneV, float_val |-> NoneV]
    ELSE IF IsInteger(f)
    THEN [expr |-> Some(PyStr(PyTrunc(f)) \o << ".", "0" >>), float_val |-> Some(f)]
    ELSE [expr |-> Some(NonEmpty(RStrip(RStrip(FormatFixed(f), "0"), "."))),
          float_val |-> Some(f)]

\* lines 42-56: the expression of the float f
NormalizeFloat(f) ==
    IF f.t = "nan" \/ f.t = "inf" \/ f.t = "ninf"
    THEN [expr |-> NoneV, float_val |-> NoneV]
    ELSE IF IsInteger(f)
    THEN [expr |-> Some(PyStr(PyTrunc(f))), float_val |-> Some(f)]
    ELSE [expr |-> Some(NonEmpty(RStrip(RStrip(FormatFixed(f), "0"), "."))),
          float_val |-> Some(f)]

\* _normalize_numeric_expr(value): [expr, float_val], both None when the value
\* is no finite number
_normalize_numeric_expr(value) ==
    IF IsNone(PyToFloat(value)) THEN [expr |-> NoneV, float_val |-> NoneV]
    ELSE NormalizeFloat(PyToFloat(value)[1])

\* ------------------------------------------------- host: user parameters

\* The host's reading of a decimal expression: its value as a float, None
\* when the text is no plain decimal number.
IsDigit(c) == c \in {"0", "1", "2", "3", "4", "5", "6", "7", "8", "9"}

DigitVal(c) == CASE c = "0" -> 0 [] c = "1" -> 1 [] c = "2" -> 2 [] c = "3" -> 3
                 [] c = "4" -> 4 [] c = "5" -> 5 [] c = "6" -> 6 [] c = "7" -> 7
                 [] c = "8" -> 8 [] c = "9" -> 9

RECURSIVE DigitsVal(_)
DigitsVal(s) == IF Len(s) = 0 THEN 0
                ELSE DigitsVal(SubSeq(s, 1, Len(s) - 1)) * 10 + DigitVal(s[Len(s)])

IndexOf(s, c) == IF \E i \in 1..Len(s) : s[i] = c
                 THEN CHOOSE i \in 1..Len(s) : s[i] = c /\ \A j \in 1..(i - 1) : s[j] # c
                 ELSE 0

HostEvalParts(neg, ip, fp, dotted) ==
    IF /\ Len(ip) > 0
       /\ \A i \in 1..Len(ip) : IsDigit(ip[i])
       /\ \A i \in 1..Len(fp) : IsDigit(fp[i])
       /\ (dotted => Len(fp) > 0)
       /\ Len(fp) <= FORMAT_DECIMALS + 1
    THEN Some(PyFloat((IF neg THEN -1 ELSE 1)
                      * (DigitsVal(ip) * FloatUnit
                         + DigitsVal(fp) * Pow10(FORMAT_DECIMALS + 1 - Len(fp)))))
    ELSE NoneV

HostEvalAt(neg, body, dot) ==
    HostEvalParts(neg,
                  IF dot = 0 THEN body ELSE SubSeq(body, 1, dot - 1),
                  IF dot = 0 THEN << >> ELSE SubSeq(body, dot + 1, Len(body)),
                  dot # 0)

HostEvalSigned(neg, body) == HostEvalAt(neg, body, IndexOf(body, "."))

HostEval(expr) ==
    IF Len(expr) > 0 /\ expr[1] = "-" THEN HostEvalSigned(TRUE, Tail(expr))
    ELSE HostEvalSigned(FALSE, expr)

\* The host's rendering of a real as an expression
HostRender(f) ==
    IF IsInteger(f) THEN PyStr(PyTrunc(f))
    ELSE RStrip(RStrip(FormatFixed(f), "0"), ".")

\* adsk.core.ValueInput.createByString / createByReal
createByString(expr) == [kind |-> "string", expr |-> expr, real |-> PyFloat(0)]

createByReal(f) == [kind |-> "real", expr |-> << >>, real |-> f]

\* UserParameters.itemByName: the parameter's index, 0 when there is none
itemByName(up, name) ==
    IF \E i \in 1..Len(up) : up[i].name = name
    THEN CHOOSE i \in 1..Len(up) : up[i].name = name
                                   /\ \A j \in 1..(i - 1) : up[j].name # name
    ELSE 0

\* UserParameter.expression = expr
setExpression(param, expr) ==
    [param EXCEPT !.expression = expr, !.value = HostEval(expr)]

\* UserParameters.add refuses a name the design already has and an
\* expression it cannot evaluate
addRefused(up, name, input) ==
    \/ itemByName(up, name) # 0
    \/ (input.kind = "string" /\ IsNone(HostEval(input.expr)))

add(up, name, input, unit, comment) ==
    Append(up, [name |-> name,
                expression |-> IF input.kind = "string" THEN input.expr
                               ELSE HostRender(input.real),
                value |-> IF input.kind = "string" THEN HostEval(input.expr)
                          ELSE Some(input.real),
                unit |-> unit,
                comment |-> comment])

\* ------------------------------------------------------------ host faults

\* host calls that may raise
ReadFaults == {"activeDocument", "activeProduct", "dataFile", "versionNumber"}

WriteFaults == {"itemByName", "setExpression", "addByString", "addByReal"}

UiFaults == {"messageBox"}

Faults == ReadFaults \cup WriteFaults \cup UiFaults

\* --------------------------------------------------------- version reader

\* a variant without the try/except around the reads
get_datafile_version_unguarded(doc, F) ==
    LET raisedInTry == \/ IsNone(doc)
                       \/ "dataFile" \in F
                       \/ (~IsNone(doc[1].dataFile) /\ "versionNumber" \in F)
    IN IF raisedInTry THEN [exc |-> TRUE, val |-> 0]
       ELSE IF ~IsNone(doc[1].dataFile)
       THEN [exc |-> FALSE, val |-> doc[1].dataFile[1].versionNumber]
       ELSE [exc |-> FALSE, val |-> 0]

\* a variant that reports an unavailable version as -1
get_datafile_version_minus_one(doc, F) ==
    LET raisedInTry == \/ IsNone(doc)
                       \/ "dataFile" \in F
                       \/ (~IsNone(doc[1].dataFile) /\ "versionNumber" \in F)
    IN IF raisedInTry THEN [exc |-> FALSE, val |-> -1]
       ELSE IF ~IsNone(doc[1].dataFile)
       THEN [exc |-> FALSE, val |-> doc[1].dataFile[1].versionNumber]
       ELSE [exc |-> FALSE, val |-> -1]

\* a variant with the test of line 27 inverted
get_datafile_version_inverted(doc, F) ==
    LET raisedInTry == \/ IsNone(doc)
                       \/ "dataFile" \in F
                       \/ IsNone(doc[1].dataFile)
    IN IF raisedInTry THEN [exc |-> FALSE, val |-> 0]
       ELSE [exc |-> FALSE, val |-> 0]

\* get_datafile_version(doc): doc is None or [dataFile |-> None or
\* [versionNumber |-> k]].  body: lines 26-28; the bare except and the final
\* return give 0 for every other path.
get_datafile_version(doc, F) ==
    LET raisedInTry == \/ IsNone(doc)
                       \/ "dataFile" \in F
                       \/ (~IsNone(doc[1].dataFile) /\ "versionNumber" \in F)
    IN IF raisedInTry THEN [exc |-> FALSE, val |-> 0]
       ELSE IF ~IsNone(doc[1].dataFile)
       THEN [exc |-> FALSE, val |-> doc[1].dataFile[1].versionNumber]
       ELSE [exc |-> FALSE, val |-> 0]

\* ------------------------------------------------------- parameter writer

Call(c, ok) == [call |-> c, ok |-> ok]

\* the progress of one call of ensure_user_parameter: the collection, the
\* host calls made so far, and whether the function has returned
Progress(up, calls, done) == [up |-> up, calls |-> calls, done |-> done]

\* lines 81-87: update the existing parameter's expression and return; a
\* failed update falls through
TryUpdate(st, name, expr, F) ==
    LET existing == itemByName(st.up, name) IN
    IF st.done \/ existing = 0 THEN st
    ELSE IF "setExpression" \in F
    THEN Progress(st.up, Append(st.calls, Call("setExpression", FALSE)), FALSE)
    ELSE Progress([st.up EXCEPT ![existing] = setExpression(st.up[existing], expr)],
                  Append(st.calls, Call("setExpression", TRUE)), TRUE)

\* a variant reached also after a successful update (no return at line 84)
TryAddByString_after_update(st, name, expr, F) ==
    LET val_input == createByString(expr) IN
    IF "addByString" \in F \/ addRefused(st.up, name, val_input)
    THEN Progress(st.up, Append(st.calls, Call("addByString", FALSE)), FALSE)
    ELSE Progress(add(st.up, name, val_input, unit_type, COMMENT),
                  Append(st.calls, Call("addByString", TRUE)), TRUE)

\* lines 90-93: add the parameter from a string expression and return
TryAddByString(st, name, expr, F) ==
    LET val_input == createByString(expr) IN
    IF st.done THEN st
    ELSE IF "addByString" \in F \/ addRefused(st.up, name, val_input)
    THEN Progress(st.up, Append(st.calls, Call("addByString", FALSE)), FALSE)
    ELSE Progress(add(st.up, name, val_input, unit_type, COMMENT),
                  Append(st.calls, Call("addByString", TRUE)), TRUE)

\* lines 96-102: add the parameter from the real value and return
TryAddByRealWith(st, name, fv, F) ==
    IF st.done THEN st
    ELSE IF \/ IsNone(fv)
            \/ "addByReal" \in F
            \/ addRefused(st.up, name, createByReal(fv[1]))
    THEN Progress(st.up, Append(st.calls, Call("addByReal", FALSE)), FALSE)
    ELSE Progress(add(st.up, name, createByReal(fv[1]), unit_type, COMMENT),
                  Append(st.calls, Call("addByReal", TRUE)), TRUE)

TryAddByReal(st, name, expr, float_val, F) ==
    TryAddByRealWith(st, name,
                     IF IsNone(float_val) THEN HostEval(expr) ELSE float_val, F)

\* lines 104-111: the diagnostic after every strategy failed; the message
\* box is tried and its own failure is passed over
GiveUp(st, F) ==
    IF st.done THEN st
    ELSE Progress(st.up, Append(st.calls, Call("messageBox failed", "messageBox" \notin F)),
                  TRUE)

\* lines 113-120: the diagnostic of the outer except clause
Unexpected(st, F) ==
    Progress(st.up, Append(st.calls, Call("messageBox error", "messageBox" \notin F)),
             TRUE)

\* ensure_user_parameter(des, name, value): des is None or
\* [userParameters |-> None or a sequence of parameters].  Returns the
\* resulting collection, the host calls made in order, and whether an
\* exception left the function.
Collection(des) ==
    IF IsNone(des) THEN << >>
    ELSE IF IsNone(des[1].userParameters) THEN << >>
    ELSE des[1].userParameters[1]

\* a variant that reports a value it cannot use instead of skipping quietly
EnsureNormalized_diagnoses(up0, name, n, F) ==
    IF IsNone(n.expr)
    THEN GiveUp(Progress(up0, << Call("itemByName", TRUE) >>, FALSE), F)
    ELSE GiveUp(
           TryAddByReal(
             TryAddByString(
               TryUpdate(Progress(up0, << Call("itemByName", TRUE) >>, FALSE),
                         name, n.expr[1], F),
               name, n.expr[1], F),
             name, n.expr[1], n.float_val, F),
           F)

\* lines 76-111, with the normalized value n
EnsureNormalized(up0, name, n, F) ==
    IF IsNone(n.expr) THEN Progress(up0, << Call("itemByName", TRUE) >>, TRUE)
    ELSE GiveUp(
           TryAddByReal(
             TryAddByString(
               TryUpdate(Progress(up0, << Call("itemByName", TRUE) >>, FALSE),
                         name, n.expr[1], F),
               name, n.expr[1], F),
             name, n.expr[1], n.float_val, F),
           F)

EnsureResult(st) == [up |-> st.up, calls |-> st.calls, exc |-> ~st.done]

ensure_user_parameter(des, name, value, F) ==
    EnsureResult(
        IF IsNone(des) THEN Progress(<< >>, << >>, TRUE)
        ELSE IF IsNone(des[1].userParameters) THEN Progress(<< >>, << >>, TRUE)
        ELSE IF "itemByName" \in F
        THEN Unexpected(Progress(Collection(des), << Call("itemByName", FALSE) >>, FALSE), F)
        ELSE EnsureNormalized(Collection(des), name, _normalize_numeric_expr(value), F))

\* ------------------------------------------------------------------- state

\* d1 is a document that can be saved to the cloud; d2 is a local document
\* that never gets a data file
Docs == {"d1", "d2"}

CloudDocs == {"d1"}

Events == {"documentActivated", "documentSaving", "documentSaved"}

VARIABLES
    active,     \* host: the active document, None or a document
    product,    \* host: kind of the active product, "Design" or "Other"
    cloud,      \* host: per document, its data file: None or [versionNumber]
    params,     \* host: per document, the user parameters of its design
    lkv,        \* _last_known_version
    handlers,   \* _handlers
    subs,       \* host: the events that have a callback of the add-in added
    frames,     \* the documentSaved callbacks in progress, innermost last
    u           \* the function under test and its inputs and result

vars == << active, product, cloud, params, lkv, handlers, subs, frames, u >>

\* what the add-in's functions read of the host and of the module's globals
Host == [active |-> active, product |-> product, cloud |-> cloud,
         params |-> params, lkv |-> lkv]

\* the Document object of a document name (None stays None)
DocObj(h, doc) == IF IsNone(doc) THEN NoneV ELSE Some([dataFile |-> h.cloud[doc[1]]])

\* a variant that takes any active product for a design
get_active_design_any_product(h) ==
    IF ~IsNone(h.active)
    THEN Some([userParameters |-> Some(h.params[h.active[1]])])
    ELSE NoneV

\* get_active_design(): Design.cast(app.activeProduct), None when the active
\* product is no design
get_active_design(h) ==
    IF ~IsNone(h.active) /\ h.product = "Design"
    THEN Some([userParameters |-> Some(h.params[h.active[1]])])
    ELSE NoneV

\* one of the parameter-writing host calls succeeded
Wrote(calls) == \E k \in 1..Len(calls) :
                    calls[k].ok /\ calls[k].call \in {"setExpression", "addByString", "addByReal"}

\* sync_version_parameter(): the parameters afterwards, the host calls of the
\* parameter writer, and whether an exception left the function
Quiet(h) == [params |-> h.params, calls |-> << >>, exc |-> FALSE]

\* a variant that writes into the design of d1 whatever document is active
Written_to_d1(h, r) ==
    [params |-> [h.params EXCEPT !["d1"] = r.up], calls |-> r.calls, exc |-> r.exc]

\* line 148 seen from the host: the active document's design holds what the
\* parameter writer left
Written(h, r) ==
    [params |-> [h.params EXCEPT ![h.active[1]] = r.up], calls |-> r.calls, exc |-> r.exc]

\* a variant that writes the baseline instead of reading the version again
sync_version_parameter_writes_baseline(h, F) ==
    IF "activeDocument" \in F THEN Quiet(h)
    ELSE IF IsNone(h.active) THEN Quiet(h)
    ELSE IF "activeProduct" \in F
    THEN [params |-> h.params, calls |-> << >>, exc |-> TRUE]
    ELSE IF IsNone(get_active_design(h)) THEN Quiet(h)
    ELSE Written(h, ensure_user_parameter(
                        get_active_design(h), PARAM_NAME,
                        PyInt(IF IsNone(h.lkv) THEN 0 ELSE h.lkv[1]), F))

sync_version_parameter(h, F) ==
    IF "activeDocument" \in F THEN Quiet(h)
    ELSE IF IsNone(h.active) THEN Quiet(h)
    ELSE IF "activeProduct" \in F
    THEN [params |-> h.params, calls |-> << >>, exc |-> TRUE]
    ELSE IF IsNone(get_active_design(h)) THEN Quiet(h)
    ELSE Written(h, ensure_user_parameter(
                        get_active_design(h), PARAM_NAME,
                        PyInt(get_datafile_version(DocObj(h, h.active), F).val), F))

\* the message box of an event callback's except clause (lines 156-157,
\* 178-179, 240-241): nothing guards it
Boundary(F) == "messageBox" \in F

\* DocumentActivatedHandler.notify
ActivatedCaught(r, F) ==
    IF r.exc THEN [params |-> r.params, diag |-> TRUE, exc |-> Boundary(F)]
    ELSE [params |-> r.params, diag |-> FALSE, exc |-> FALSE]

ActivatedNotify(h, F) == ActivatedCaught(sync_version_parameter(h, F), F)

\* a variant without the reset of line 171 and the fallback of line 176
SavingNotify_keeps_baseline(h, F) ==
    LET doc == IF "activeDocument" \in F THEN NoneV ELSE h.active IN
    IF IsNone(doc) THEN [lkv |-> h.lkv, diag |-> FALSE, exc |-> FALSE]
    ELSE IF "dataFile" \in F THEN [lkv |-> h.lkv, diag |-> TRUE, exc |-> Boundary(F)]
    ELSE IF IsNone(h.cloud[doc[1]]) THEN [lkv |-> h.lkv, diag |-> FALSE, exc |-> FALSE]
    ELSE IF "versionNumber" \in F THEN [lkv |-> h.lkv, diag |-> FALSE, exc |-> FALSE]
    ELSE [lkv |-> Some(h.cloud[doc[1]][1].versionNumber), diag |-> FALSE, exc |-> FALSE]

\* DocumentSavingHandler.notify
SavingNotify(h, F) ==
    LET doc == IF "activeDocument" \in F THEN NoneV ELSE h.active IN
    IF IsNone(doc) THEN [lkv |-> Some(0), diag |-> FALSE, exc |-> FALSE]
    ELSE IF "dataFile" \in F THEN [lkv |-> Some(0), diag |-> TRUE, exc |-> Boundary(F)]
    ELSE IF IsNone(h.cloud[doc[1]]) THEN [lkv |-> Some(0), diag |-> FALSE, exc |-> FALSE]
    ELSE IF "versionNumber" \in F THEN [lkv |-> Some(0), diag |-> FALSE, exc |-> FALSE]
    ELSE [lkv |-> Some(h.cloud[doc[1]][1].versionNumber), diag |-> FALSE, exc |-> FALSE]

\* ------------------------------------------------ DocumentSavedHandler.notify

\* A callback in progress.  doc: the document read at entry; phase, i: the
\* loop and its index; pc: "doEvents" while the callback has yielded to the
\* host, "done" at its return.  The other fields count what the run has done:
\* version checks (slow: those of phase 2), yields, sleeps, calls of
\* sync_version_parameter, parameter writes; hitAt is the number of the first
\* check that read a version above the baseline (0: none so far), hitV that
\* version and base the baseline it was compared with; out tells how the run
\* ended, exc whether an exception reached the host, and F which host calls
\* failed in the stretch that ended the run.
NewFrame(doc) ==
    [doc |-> doc, phase |-> "fast", i |-> 0, pc |-> "run",
     checks |-> 0, slow |-> 0, yields |-> 0, sleeps |-> 0, syncs |-> 0,
     writes |-> 0, hitAt |-> 0, hitV |-> 0, base |-> 0,
     out |-> "polling", diag |-> FALSE, exc |-> FALSE, F |-> {}]

Step(fr, p, l) == [frame |-> fr, params |-> p, lkv |-> l]

\* a call of sync_version_parameter inside the callback's outer try, ending
\* the run as `out`; newLkv is the assignment that follows the call
Synced(r, fr, F, out, oldLkv, newLkv) ==
    IF r.exc
    THEN Step([fr EXCEPT !.syncs = @ + 1, !.pc = "done", !.F = F,
                         !.out = IF out = "nofile" THEN out ELSE "error",
                         !.diag = TRUE, !.exc = Boundary(F)],
              r.params, oldLkv)
    ELSE Step([fr EXCEPT !.syncs = @ + 1, !.pc = "done", !.F = F, !.out = out,
                         !.writes = IF Wrote(r.calls) THEN @ + 1 ELSE @],
              r.params, newLkv)

SyncAndReturn(h, fr, F, out, newLkv) ==
    Synced(sync_version_parameter(h, F), fr, F, out, h.lkv, newLkv)

\* int(doc.dataFile.versionNumber), 0 when that raises (lines 207-210, 223-226)
ReadCurrent(h, doc, F) ==
    IF "dataFile" \in F \/ "versionNumber" \in F \/ IsNone(h.cloud[doc])
    THEN 0 ELSE h.cloud[doc][1].versionNumber

\* _last_known_version or 0
Baseline(h) == IF IsNone(h.lkv) THEN 0 ELSE h.lkv[1]

\* a variant that asks for an increment of more than one
Increment_off_by_one(current, base) == current > base + 1

\* the test of lines 212 and 228
Increment(current, base) == current > base

\* a variant that yields to the host between the detection and the sync
Check_yields_first(h, fr, phase, i, F) ==
    LET current == ReadCurrent(h, fr.doc[1], F)
        base == Baseline(h)
        seen == current > base
        f1 == [fr EXCEPT !.phase = phase, !.i = i,
                         !.checks = @ + 1,
                         !.slow = IF phase = "slow" THEN @ + 1 ELSE @,
                         !.yields = @ + 1,
                         !.hitAt = IF @ = 0 /\ seen THEN fr.checks + 1 ELSE @,
                         !.hitV = IF fr.hitAt = 0 /\ seen THEN current ELSE @,
                         !.base = IF fr.hitAt = 0 /\ seen THEN base ELSE @]
    IN IF Increment(current, base)
       THEN SyncAndReturn(h, f1, F, "detected", Some(current))
       ELSE Step([f1 EXCEPT !.pc = "doEvents"], h.params, h.lkv)

\* one iteration of either loop up to its doEvents: the check, and on an
\* increment the sync, the new baseline and the return
Check(h, fr, phase, i, F) ==
    LET current == ReadCurrent(h, fr.doc[1], F)
        base == Baseline(h)
        seen == current > base
        f1 == [fr EXCEPT !.phase = phase, !.i = i,
                         !.checks = @ + 1,
                         !.slow = IF phase = "slow" THEN @ + 1 ELSE @,
                         !.hitAt = IF @ = 0 /\ seen THEN fr.checks + 1 ELSE @,
                         !.hitV = IF fr.hitAt = 0 /\ seen THEN current ELSE @,
                         !.base = IF fr.hitAt = 0 /\ seen THEN base ELSE @]
    IN IF Increment(current, base)
       THEN SyncAndReturn(h, f1, F, "detected", Some(current))
       ELSE Step([f1 EXCEPT !.pc = "doEvents", !.yields = @ + 1], h.params, h.lkv)

\* a variant whose final sync also resets the baseline
FinalSync_resets(h, fr, F) == SyncAndReturn(h, fr, F, "exhausted", Some(0))

\* the final best-effort sync of line 237
FinalSync(h, fr, F) == SyncAndReturn(h, fr, F, "exhausted", h.lkv)

\* from the callback's entry to its first doEvents or its return
\* a variant that polls a document without a data file
EnterWith_polls_local(h, doc, F) ==
    IF ~IsNone(doc) /\ "dataFile" \in F
    THEN Step([NewFrame(doc) EXCEPT !.pc = "done", !.out = "error", !.diag = TRUE,
                                    !.exc = Boundary(F), !.F = F], h.params, h.lkv)
    ELSE IF IsNone(doc) THEN SyncAndReturn(h, NewFrame(doc), F, "nofile", h.lkv)
    ELSE Check(h, NewFrame(doc), "fast", 0, F)

EnterWith(h, doc, F) ==
    IF ~IsNone(doc) /\ "dataFile" \in F
    THEN Step([NewFrame(doc) EXCEPT !.pc = "done", !.out = "error", !.diag = TRUE,
                                    !.exc = Boundary(F), !.F = F], h.params, h.lkv)
    ELSE IF IsNone(doc) THEN SyncAndReturn(h, NewFrame(doc), F, "nofile", h.lkv)
    ELSE IF IsNone(h.cloud[doc[1]]) THEN SyncAndReturn(h, NewFrame(doc), F, "nofile", h.lkv)
    ELSE Check(h, NewFrame(doc), "fast", 0, F)

SavedEnter(h, F) ==
    EnterWith(h, IF "activeDocument" \in F THEN NoneV ELSE h.active, F)

\* a variant whose slow loop makes one iteration too many
SavedResume_extra_slow(h, fr, F) ==
    IF fr.phase = "fast"
    THEN IF fr.i + 1 < fast_tries THEN Check(h, fr, "fast", fr.i + 1, F)
         ELSE IF slow_tries > 0 THEN Check(h, fr, "slow", 0, F)
         ELSE FinalSync(h, fr, F)
    ELSE LET f1 == [fr EXCEPT !.sleeps = @ + 1] IN
         IF fr.i + 1 <= slow_tries THEN Check(h, f1, "slow", fr.i + 1, F)
         ELSE FinalSync(h, f1, F)

\* a variant that starts the fast loop again when the slow loop is exhausted
SavedResume_restart(h, fr, F) ==
    IF fr.phase = "fast"
    THEN IF fr.i + 1 < fast_tries THEN Check(h, fr, "fast", fr.i + 1, F)
         ELSE IF slow_tries > 0 THEN Check(h, fr, "slow", 0, F)
         ELSE FinalSync(h, fr, F)
    ELSE LET f1 == [fr EXCEPT !.sleeps = @ + 1] IN
         IF fr.i + 1 < slow_tries THEN Check(h, f1, "slow", fr.i + 1, F)
         ELSE Check(h, f1, "fast", 0, F)

\* from the return of doEvents to the next doEvents or the callback's return
SavedResume(h, fr, F) ==
    IF fr.phase = "fast"
    THEN IF fr.i + 1 < fast_tries THEN Check(h, fr, "fast", fr.i + 1, F)
         ELSE IF slow_tries > 0 THEN Check(h, fr, "slow", 0, F)
         ELSE FinalSync(h, fr, F)
    ELSE LET f1 == [fr EXCEPT !.sleeps = @ + 1] IN
         IF fr.i + 1 < slow_tries THEN Check(h, f1, "slow", fr.i + 1, F)
         ELSE FinalSync(h, f1, F)

\* ------------------------------------------------------------ run and stop

HandlerNames == << "on_doc_activated", "on_doc_saving", "on_doc_saved" >>

\* run(context) after the three callbacks are added: the initial sync
RunCaught(r, F) == [params |-> r.params, exc |-> r.exc /\ Boundary(F)]

RunSync(h, F) ==
    IF "activeDocument" \in F THEN [params |-> h.params, exc |-> FALSE]
    ELSE IF IsNone(h.active) THEN [params |-> h.params, exc |-> FALSE]
    ELSE IF "activeProduct" \in F THEN [params |-> h.params, exc |-> Boundary(F)]
    ELSE IF IsNone(get_active_design(h)) THEN [params |-> h.params, exc |-> FALSE]
    ELSE RunCaught(sync_version_parameter(h, F), F)

\* ----------------------------------------------------------------- actions

\* the sets of host calls that fail together during one stretch of add-in
\* code in the event-driven specification (every outcome of a callback
\* arises from one of them)
FaultCases ==
    { {}, {"activeDocument"}, {"activeProduct"}, {"activeProduct", "messageBox"},
      {"dataFile"}, {"dataFile", "messageBox"}, {"versionNumber"},
      {"itemByName"}, {"setExpression"}, {"addByString"},
      {"addByString", "addByReal"} }

CloudStates == {NoneV} \cup {Some([versionNumber |-> v]) : v \in 0..MaxVersion}

ActiveStates == {NoneV} \cup {Some(d) : d \in Docs}

Idle == [op |-> "idle"]

Init ==
    /\ active = NoneV
    /\ product = "Design"
    /\ cloud = [d \in Docs |-> NoneV]
    /\ params = [d \in Docs |-> << >>]
    /\ lkv = NoneV
    /\ handlers = << >>
    /\ subs = {}
    /\ frames = << >>
    /\ u = Idle

Top == frames[Len(frames)]

\* the host runs its own code: no callback is in progress, or the innermost
\* one is inside adsk.doEvents()
HostInControl == IF frames = << >> THEN TRUE ELSE Top.pc = "doEvents"

\* what a stretch of the documentSaved callback leaves: its frame on top of
\* the outer ones, the parameters and _last_known_version
Effect(outer, s) ==
    /\ frames' = Append(outer, s.frame)
    /\ params' = s.params
    /\ lkv' = s.lkv

HostSetActive ==
    /\ HostInControl
    /\ \E a \in ActiveStates : a # active /\ active' = a
    /\ UNCHANGED << product, cloud, params, lkv, handlers, subs, frames, u >>

HostSetProduct ==
    /\ HostInControl
    /\ \E p \in {"Design", "Other"} : p # product /\ product' = p
    /\ UNCHANGED << active, cloud, params, lkv, handlers, subs, frames, u >>

HostSetCloud ==
    /\ HostInControl
    /\ \E d \in CloudDocs, c \in CloudStates :
          c # cloud[d] /\ cloud' = [cloud EXCEPT ![d] = c]
    /\ UNCHANGED << active, product, params, lkv, handlers, subs, frames, u >>

Run ==
    /\ frames = << >>
    /\ subs = {}
    /\ \E F \in FaultCases :
          /\ params' = RunSync(Host, F).params
          /\ subs' = Events
          /\ handlers' = HandlerNames
    /\ UNCHANGED << active, product, cloud, lkv, frames, u >>

\* stop(context): _handlers.clear() is all it does; no event's remove() is
\* called.  The host keeps the callbacks it was given, or drops them when the
\* add-in lets go of the handler objects: both outcomes are modelled.
Stop ==
    /\ frames = << >>
    /\ handlers # << >>
    /\ handlers' = << >>
    /\ \E kept \in {subs, {}} : subs' = kept
    /\ UNCHANGED << active, product, cloud, params, lkv, frames, u >>

DocumentActivated ==
    /\ HostInControl
    /\ "documentActivated" \in subs
    /\ \E F \in FaultCases : params' = ActivatedNotify(Host, F).params
    /\ UNCHANGED << active, product, cloud, lkv, handlers, subs, frames, u >>

DocumentSaving ==
    /\ HostInControl
    /\ "documentSaving" \in subs
    /\ \E F \in FaultCases : lkv' = SavingNotify(Host, F).lkv
    /\ UNCHANGED << active, product, cloud, params, handlers, subs, frames, u >>

\* The host delivers documentSaved while no earlier documentSaved callback
\* is in progress.
DocumentSaved ==
    /\ HostInControl
    /\ "documentSaved" \in subs
    /\ frames = << >>
    /\ \E F \in FaultCases :
          Effect(<< >>, SavedEnter(Host, F))
    /\ UNCHANGED << active, product, cloud, handlers, subs, u >>

Resume ==
    /\ frames # << >>
    /\ Top.pc = "doEvents"
    /\ \E F \in FaultCases :
          Effect(SubSeq(frames, 1, Len(frames) - 1), SavedResume(Host, Top, F))
    /\ UNCHANGED << active, product, cloud, handlers, subs, u >>

Return ==
    /\ frames # << >>
    /\ Top.pc = "done"
    /\ frames' = SubSeq(frames, 1, Len(frames) - 1)
    /\ UNCHANGED << active, product, cloud, params, lkv, handlers, subs, u >>

Next ==
    \/ HostSetActive
    \/ HostSetProduct
    \/ HostSetCloud
    \/ Run
    \/ Stop
    \/ DocumentActivated
    \/ DocumentSaving
    \/ DocumentSaved
    \/ Resume
    \/ Return

Spec == Init /\ [][Next]_vars

\* ------------------------------------------- the functions, one call each

\* A second specification applies one function of the add-in to inputs drawn
\* from the sets below and keeps the call in u: op names the function, in its
\* arguments (and the failing host calls F), out its result.  Each behaviour
\* is one call.

Param(name, expression, unit) ==
    [name |-> name, expression |-> expression, value |-> HostEval(expression),
     unit |-> unit, comment |-> COMMENT]

UnitDocuments ==
    {NoneV, Some([dataFile |-> NoneV])}
        \cup {Some([dataFile |-> c]) : c \in CloudStates \ {NoneV}}

UnitValues ==
    {PyInt(v) : v \in 0..MaxVersion} \cup {PyInt(7), PyInt(10), PyInt(205), PyInt(-3)}
        \cup {PyFloat(7 * FloatUnit), PyFloat(15000000), PyFloat(-2500000),
              PyFloat(12345675), PyFloat(4), PyFloat(-4), PyFloat(9999996)}
        \cup {PyNaN, PyInf, PyNegInf, PyOther}

UnitCollections ==
    { << >>,
      << Param(PARAM_NAME, << "0" >>, unit_type) >>,
      << Param(PARAM_NAME, << "5" >>, "mm") >>,
      << Param("width", << "1", "2" >>, "mm") >>,
      << Param("width", << "1", "2" >>, "mm"), Param(PARAM_NAME, << "1" >>, unit_type) >> }

UnitDesigns ==
    {NoneV, Some([userParameters |-> NoneV])}
        \cup {Some([userParameters |-> Some(up)]) : up \in UnitCollections}

UnitParams == { << >>, << Param(PARAM_NAME, << "1" >>, unit_type) >> }

UnitHosts ==
    { [active |-> a, product |-> p, cloud |-> [d \in Docs |-> IF d \in CloudDocs THEN c ELSE NoneV],
       params |-> [d \in Docs |-> q], lkv |-> l] :
         a \in ActiveStates, p \in {"Design", "Other"}, c \in CloudStates,
         q \in UnitParams, l \in {NoneV, Some(0), Some(MaxVersion)} }

UnitFaults == (SUBSET (ReadFaults \cup UiFaults)) \cup FaultCases

UnitGetVersion ==
    /\ u = Idle
    /\ \E doc \in UnitDocuments, F \in SUBSET {"dataFile", "versionNumber"} :
          u' = [op |-> "get_datafile_version", in |-> [doc |-> doc, F |-> F],
                out |-> get_datafile_version(doc, F)]
    /\ UNCHANGED << active, product, cloud, params, lkv, handlers, subs, frames >>

UnitNormalize ==
    /\ u = Idle
    /\ \E value \in UnitValues :
          u' = [op |-> "_normalize_numeric_expr", in |-> [value |-> value],
                out |-> _normalize_numeric_expr(value)]
    /\ UNCHANGED << active, product, cloud, params, lkv, handlers, subs, frames >>

UnitEnsure ==
    /\ u = Idle
    /\ \E des \in UnitDesigns, value \in UnitValues,
          F \in SUBSET (WriteFaults \cup UiFaults) :
          u' = [op |-> "ensure_user_parameter",
                in |-> [des |-> des, name |-> PARAM_NAME, value |-> value, F |-> F],
                out |-> ensure_user_parameter(des, PARAM_NAME, value, F)]
    /\ UNCHANGED << active, product, cloud, params, lkv, handlers, subs, frames >>

UnitSync ==
    /\ u = Idle
    /\ \E h \in UnitHosts, F \in UnitFaults :
          u' = [op |-> "sync_version_parameter", in |-> [h |-> h, F |-> F],
                out |-> sync_version_parameter(h, F)]
    /\ UNCHANGED << active, product, cloud, params, lkv, handlers, subs, frames >>

UnitActivated ==
    /\ u = Idle
    /\ \E h \in UnitHosts, F \in UnitFaults :
          u' = [op |-> "DocumentActivatedHandler.notify", in |-> [h |-> h, F |-> F],
                out |-> ActivatedNotify(h, F)]
    /\ UNCHANGED << active, product, cloud, params, lkv, handlers, subs, frames >>

UnitSaving ==
    /\ u = Idle
    /\ \E h \in UnitHosts, F \in UnitFaults :
          u' = [op |-> "DocumentSavingHandler.notify", in |-> [h |-> h, F |-> F],
                out |-> SavingNotify(h, F)]
    /\ UNCHANGED << active, product, cloud, params, lkv, handlers, subs, frames >>

\* DocumentSavedHandler.notify up to its first doEvents or its return
UnitSaved ==
    /\ u = Idle
    /\ \E h \in UnitHosts, F \in UnitFaults :
          u' = [op |-> "DocumentSavedHandler.notify", in |-> [h |-> h, F |-> F],
                out |-> SavedEnter(h, F)]
    /\ UNCHANGED << active, product, cloud, params, lkv, handlers, subs, frames >>

UnitNext ==
    \/ UnitGetVersion
    \/ UnitNormalize
    \/ UnitEnsure
    \/ UnitSync
    \/ UnitActivated
    \/ UnitSaving
    \/ UnitSaved

UnitSpec == Init /\ [][UnitNext]_vars

\* ------------------------------------ one document with a growing version

\* A third specification follows one document: the host opens it once and it
\* stays the active document, and its cloud version never decreases (a
\* document without a data file counts as version 0).  The add-in's
\* callbacks are those of the event-driven specification; u keeps the
\* history of the writes: the value last written to the document's
\* parameter, the highest value written before it, and whether the version
\* read of the last write failed.

MonoDoc == "d1"

CloudVersion(c) == IF IsNone(c) THEN 0 ELSE c[1].versionNumber

\* the value of the parameter "FusionVersion" in the collection up
WrittenValue(up) == DigitsVal(up[itemByName(up, PARAM_NAME)].expression)

HighestWritten ==
    IF u.op # "written" THEN NoneV
    ELSE IF IsNone(u.high) THEN Some(u.last)
    ELSE IF u.high[1] > u.last THEN u.high ELSE Some(u.last)

Logged(F) ==
    u' = IF params'[MonoDoc] = params[MonoDoc] THEN u
         ELSE [op |-> "written",
               high |-> HighestWritten,
               last |-> WrittenValue(params'[MonoDoc]),
               readFailed |-> F \cap {"dataFile", "versionNumber"} # {}]

MonoOpen ==
    /\ HostInControl
    /\ active = NoneV
    /\ active' = Some(MonoDoc)
    /\ UNCHANGED << product, cloud, params, lkv, handlers, subs, frames, u >>

MonoCloudSave ==
    /\ HostInControl
    /\ \E c \in CloudStates :
          /\ c # cloud[MonoDoc]
          /\ CloudVersion(c) >= CloudVersion(cloud[MonoDoc])
          /\ cloud' = [cloud EXCEPT ![MonoDoc] = c]
    /\ UNCHANGED << active, product, params, lkv, handlers, subs, frames, u >>

MonoRun ==
    /\ frames = << >>
    /\ subs = {}
    /\ \E F \in FaultCases :
          /\ params' = RunSync(Host, F).params
          /\ Logged(F)
    /\ subs' = Events
    /\ handlers' = HandlerNames
    /\ UNCHANGED << active, product, cloud, lkv, frames >>

MonoActivated ==
    /\ HostInControl
    /\ "documentActivated" \in subs
    /\ \E F \in FaultCases :
          /\ params' = ActivatedNotify(Host, F).params
          /\ Logged(F)
    /\ UNCHANGED << active, product, cloud, lkv, handlers, subs, frames >>

MonoSaved ==
    /\ HostInControl
    /\ "documentSaved" \in subs
    /\ frames = << >>
    /\ \E F \in FaultCases :
          /\ Effect(<< >>, SavedEnter(Host, F))
          /\ Logged(F)
    /\ UNCHANGED << active, product, cloud, handlers, subs >>

MonoResume ==
    /\ frames # << >>
    /\ Top.pc = "doEvents"
    /\ \E F \in FaultCases :
          /\ Effect(SubSeq(frames, 1, Len(frames) - 1), SavedResume(Host, Top, F))
          /\ Logged(F)
    /\ UNCHANGED << active, product, cloud, handlers, subs >>

MonoNext ==
    \/ MonoOpen
    \/ MonoCloudSave
    \/ HostSetProduct
    \/ MonoRun
    \/ Stop
    \/ MonoActivated
    \/ DocumentSaving
    \/ MonoSaved
    \/ MonoResume
    \/ Return

MonoSpec == Init /\ [][MonoNext]_vars

\* ------------------------------------------------------------------ claims

\* the decimal digits of a natural number, without sign, point, exponent or
\* leading zero
IsPlainDecimalOf(expr, v) ==
    /\ Len(expr) > 0
    /\ \A k \in 1..Len(expr) : IsDigit(expr[k])
    /\ (Len(expr) > 1 => expr[1] # "0")
    /\ DigitsVal(expr) = v

Named(up, name) == {k \in 1..Len(up) : up[k].name = name}

\* C10: get_datafile_version never raises and returns an integer >= 0: the
\* cloud file's version number when the document has a cloud file whose
\* version number reads as an integer, and 0 in every other case (no
\* document, no cloud file, the data file or the version unavailable).
C10_VersionReader ==
    u.op = "get_datafile_version" =>
        LET doc == u.in.doc
            readable == /\ ~IsNone(doc)
                        /\ ~IsNone(doc[1].dataFile)
                        /\ u.in.F = {}
        IN /\ ~u.out.exc
           /\ u.out.val \in Nat
           /\ (readable => u.out.val = doc[1].dataFile[1].versionNumber)
           /\ (~readable => u.out.val = 0)

C10_Witness ==
    /\ u.op = "get_datafile_version"
    /\ u.in.F = {}
    /\ ~IsNone(u.in.doc)
    /\ u.in.doc[1].dataFile = Some([versionNumber |-> MaxVersion])
    /\ u.out.val = MaxVersion

\* C6: after a document-about-to-save event the baseline is the active
\* document's cloud version at that moment, or 0 when there is no active
\* document, no cloud file, or the version cannot be read; the previous
\* baseline plays no part.
C6_BaselineSnapshot ==
    u.op = "DocumentSavingHandler.notify" =>
        LET h == u.in.h
            readable == /\ ~IsNone(h.active)
                        /\ ~IsNone(h.cloud[h.active[1]])
                        /\ u.in.F \cap {"activeDocument", "dataFile", "versionNumber"} = {}
        IN u.out.lkv = IF readable
                       THEN Some(h.cloud[h.active[1]][1].versionNumber)
                       ELSE Some(0)

C6_Witness ==
    /\ u.op = "DocumentSavingHandler.notify"
    /\ u.in.F = {}
    /\ u.in.h.active = Some("d1")
    /\ u.in.h.cloud["d1"] = Some([versionNumber |-> 1])
    /\ u.in.h.lkv = Some(MaxVersion)
    /\ u.out.lkv = Some(1)

\* C7 (as claimed): no event callback lets an exception reach the host,
\* whatever host call fails, the message box included.
C7_NoExceptionReachesHost ==
    /\ u.op \in {"DocumentActivatedHandler.notify", "DocumentSavingHandler.notify"}
          => ~u.out.exc
    /\ u.op = "DocumentSavedHandler.notify" => ~u.out.frame.exc

\* the ranks of the host calls of ensure_user_parameter
StrategyRank(c) == CASE c = "itemByName" -> 0
                     [] c = "setExpression" -> 1
                     [] c = "addByString" -> 2
                     [] c = "addByReal" -> 3
                     [] c = "messageBox failed" -> 4
                     [] c = "messageBox error" -> 4

Tried(calls, c) == \E k \in 1..Len(calls) : calls[k].call = c

Failed(calls, c) == \E k \in 1..Len(calls) : calls[k].call = c /\ ~calls[k].ok

\* C8: ensure_user_parameter never raises and tries its strategies in the
\* fixed order update, create by string, create by real, diagnostic: the
\* update is tried exactly when the parameter exists; creation by string
\* exactly when the parameter is absent or its update failed; creation by
\* real exactly when creation by string failed; the diagnostic exactly when
\* creation by real failed; and no call follows a strategy that succeeded.
C8_StrategyOrder ==
    u.op = "ensure_user_parameter" =>
        LET calls == u.out.calls
            des == u.in.des
            reached == /\ ~IsNone(des)
                       /\ ~IsNone(des[1].userParameters)
                       /\ "itemByName" \notin u.in.F
                       /\ ~IsNone(_normalize_numeric_expr(u.in.value).expr)
            exists == reached /\ Named(des[1].userParameters[1], u.in.name) # {}
        IN /\ ~u.out.exc
           /\ \A j, k \in 1..Len(calls) :
                 j < k => /\ StrategyRank(calls[j].call) < StrategyRank(calls[k].call)
                          /\ ~(calls[j].ok /\ calls[j].call # "itemByName")
           /\ Tried(calls, "setExpression") <=> exists
           /\ Tried(calls, "addByString")
                 <=> (reached /\ (~exists \/ Failed(calls, "setExpression")))
           /\ Tried(calls, "addByReal") <=> Failed(calls, "addByString")
           /\ Tried(calls, "messageBox failed") <=> Failed(calls, "addByReal")

C8_Witness ==
    /\ u.op = "ensure_user_parameter"
    /\ Len(u.out.calls) = 3
    /\ u.out.calls[2] = Call("addByString", FALSE)
    /\ u.out.calls[3] = Call("addByReal", TRUE)

\* C9: a successful ensure_user_parameter(design, "FusionVersion", v) with
\* an integer v >= 0 leaves exactly one parameter of that name, whose
\* expression is the plain decimal string of v; an existing parameter is
\* updated in place (same position, name and unit, nothing added, the other
\* parameters untouched), an absent one is appended with the dimensionless
\* unit and the value v.
C9_ExactlyOneParameter ==
    (/\ u.op = "ensure_user_parameter"
     /\ u.in.value.t = "int"
     /\ u.in.value.n >= 0
     /\ Wrote(u.out.calls)) =>
        LET up0 == u.in.des[1].userParameters[1]
            up1 == u.out.up
            v == u.in.value.n
            old == Named(up0, PARAM_NAME)
            new == Named(up1, PARAM_NAME)
        IN /\ Cardinality(new) = 1
           /\ \A k \in new :
                 /\ IsPlainDecimalOf(up1[k].expression, v)
                 /\ old # {} => /\ k \in old
                                /\ Len(up1) = Len(up0)
                                /\ up1[k].unit = up0[k].unit
                 /\ old = {} => /\ k = Len(up0) + 1
                                /\ Len(up1) = Len(up0) + 1
                                /\ up1[k].unit = "NoUnits"
                                /\ up1[k].value = Some(PyFloat(v * FloatUnit))
           /\ \A k \in 1..Len(up0) : k \notin old => up1[k] = up0[k]

C9_Witness ==
    /\ u.op = "ensure_user_parameter"
    /\ u.in.value = PyInt(205)
    /\ u.in.des = Some([userParameters |-> Some(<< Param(PARAM_NAME, << "5" >>, "mm") >>)])
    /\ u.out.up = << Param(PARAM_NAME, << "2", "0", "5" >>, "mm") >>

\* the documentSaved runs in progress
Runs == {frames[k] : k \in 1..Len(frames)}

\* the host has an active document whose active product is a design
ActiveDesign == ~IsNone(active) /\ product = "Design"

\* the cloud version of the active document, 0 when it has no data file
ActiveVersion == IF IsNone(cloud[active[1]]) THEN 0
                 ELSE cloud[active[1]][1].versionNumber

\* the expression of the active design's parameter
ActiveExpression ==
    LET up == params[active[1]] IN up[itemByName(up, PARAM_NAME)].expression

\* C1: a run whose first version above the baseline is read at check k, with
\* k <= 8, makes exactly k checks (and k - 1 yields), makes exactly one
\* best-effort parameter write (one call of sync_version_parameter, which
\* writes once when the host has an active design and no host call fails,
\* and never more than once) and returns with no slow-phase check and no
\* sleep.
C1_FastDetection ==
    \A fr \in Runs :
        fr.hitAt \in 1..8 =>
            /\ fr.pc = "done"
            /\ fr.checks = fr.hitAt
            /\ fr.yields = fr.hitAt - 1
            /\ fr.syncs = 1
            /\ fr.writes <= 1
            /\ (fr.F = {} /\ ActiveDesign => fr.writes = 1)
            /\ fr.slow = 0
            /\ fr.sleeps = 0

C1_Witness ==
    \E fr \in Runs :
        /\ fr.hitAt = 4
        /\ fr.base = 1
        /\ fr.hitV = 2
        /\ fr.checks = 4
        /\ fr.writes = 1

\* C2 (as claimed): the value written on a detected increment is the
\* detected version.
C2_WritesDetected ==
    \A fr \in Runs :
        (fr.out = "detected" /\ fr.writes = 1) => ActiveExpression = PyStr(fr.hitV)

\* C2 (amended): the value written on a detected increment is the cloud
\* version of the document that is active at that moment (0 when it has no
\* cloud file); it is the detected version whenever the polled document is
\* still the active document.
C2_WritesActiveVersion ==
    \A fr \in Runs :
        (fr.out = "detected" /\ fr.writes = 1) =>
            /\ ActiveExpression = PyStr(ActiveVersion)
            /\ (fr.doc = active => ActiveExpression = PyStr(fr.hitV))

C2_Witness ==
    \E fr \in Runs :
        /\ fr.out = "detected"
        /\ fr.writes = 1
        /\ fr.doc = active
        /\ fr.hitV = MaxVersion
        /\ ActiveExpression = PyStr(MaxVersion)

\* C3: a run none of whose checks reads a version above the baseline makes
\* exactly 38 checks, 8 fast and then 30 slow, and only then makes its one
\* unconditional best-effort write (one call of sync_version_parameter),
\* whose value is the active document's version as read at that moment;
\* while the run is polling nothing has been written.
C3_Exhausted ==
    \A fr \in Runs :
        /\ fr.pc = "doEvents" => (fr.hitAt = 0 /\ fr.syncs = 0 /\ fr.writes = 0)
        /\ (fr.pc = "done" /\ fr.hitAt = 0 /\ fr.checks > 0) =>
              /\ fr.checks = 38
              /\ fr.slow = 30
              /\ fr.sleeps = 30
              /\ fr.syncs = 1
              /\ fr.out \in {"exhausted", "error"}
        /\ fr.out = "exhausted" =>
              /\ fr.hitAt = 0
              /\ fr.checks = 38
              /\ fr.writes <= 1
              /\ (fr.F = {} /\ ActiveDesign => fr.writes = 1)
              /\ fr.writes = 1 =>
                    ActiveExpression =
                        PyStr(IF fr.F \cap {"dataFile", "versionNumber"} = {}
                              THEN ActiveVersion ELSE 0)

C3_Witness ==
    \E fr \in Runs :
        /\ fr.out = "exhausted"
        /\ fr.checks = 38
        /\ fr.writes = 1
        /\ ActiveExpression = PyStr(MaxVersion)

Rank(fr) == IF fr.pc = "done" THEN 0 ELSE 1 + (38 - fr.checks)

\* C5: every documentSaved run terminates.  A run makes at most 8 fast and
\* then at most 30 slow checks; it is always either inside doEvents (a sleep
\* may follow) or at its return; every step of a run makes one more check
\* or ends the run, so that what is left of the run strictly decreases; no
\* step goes from the slow phase back to the fast phase; and a run starts
\* only when none is in progress.
C5_Terminates ==
    /\ [](\A fr \in Runs :
             /\ fr.pc \in {"doEvents", "done"}
             /\ fr.checks <= 38
             /\ fr.slow <= 30
             /\ fr.checks - fr.slow <= 8
             /\ fr.phase = "fast" => (fr.slow = 0 /\ fr.i < 8)
             /\ fr.phase = "slow" => (fr.checks - fr.slow = 8 /\ fr.i < 30))
    /\ [][(frames # << >> /\ frames' # frames) =>
             \/ (frames[1].pc = "done" /\ frames' = << >>)
             \/ /\ frames[1].pc = "doEvents"
                /\ Len(frames') = 1
                /\ Rank(frames'[1]) < Rank(frames[1])
                /\ frames'[1].checks >= frames[1].checks
                /\ ~(frames[1].phase = "slow" /\ frames'[1].phase = "fast")]_vars

C5_Witness ==
    \E fr \in Runs :
        /\ fr.pc = "done"
        /\ fr.phase = "slow"
        /\ fr.out = "detected"
        /\ fr.checks = 38

\* C11 (as claimed): while the add-in is stopped (its handler list is empty,
\* before run and after stop) no step changes a design's parameters or the
\* baseline: after stop none of the three callbacks is delivered any more.
C11_NoEffectAfterStop ==
    [][(handlers = << >> /\ handlers' = << >>) =>
          (params' = params /\ lkv' = lkv)]_vars

\* the values that are no finite real number
NotFinite == {"nan", "inf", "ninf", "other"}

\* C12: for a value that is no finite real number (non-numeric, NaN, +inf,
\* -inf) the normalizer returns (None, None), and ensure_user_parameter
\* returns without raising and with the design's collection as it was: no
\* update and no creation is tried, whatever host call fails; and when the
\* lookup of the existing parameter (line 74, made before the value is
\* looked at) succeeds, that lookup is the only host call: no diagnostic.
C12_NotApplicable ==
    /\ (u.op = "_normalize_numeric_expr" /\ u.in.value.t \in NotFinite) =>
          u.out = [expr |-> NoneV, float_val |-> NoneV]
    /\ (u.op = "ensure_user_parameter" /\ u.in.value.t \in NotFinite) =>
          /\ ~u.out.exc
          /\ u.out.up = Collection(u.in.des)
          /\ ~Tried(u.out.calls, "setExpression")
          /\ ~Tried(u.out.calls, "addByString")
          /\ ~Tried(u.out.calls, "addByReal")
          /\ "itemByName" \notin u.in.F =>
                 /\ ~Tried(u.out.calls, "messageBox failed")
                 /\ ~Tried(u.out.calls, "messageBox error")

C12_Witness ==
    /\ u.op = "ensure_user_parameter"
    /\ u.in.value = PyNaN
    /\ u.in.F = {}
    /\ u.in.des = Some([userParameters |-> Some(<< Param(PARAM_NAME, << "5" >>, "mm") >>)])
    /\ u.out.up = << Param(PARAM_NAME, << "5" >>, "mm") >>
    /\ u.out.calls = << Call("itemByName", TRUE) >>

\* C13: in a documentSaved run every check but a detecting one is followed
\* by exactly one yield to the host, so that one yield lies between any two
\* consecutive checks (the last fast and the first slow check included);
\* every yield after a slow check is followed by one pause and no yield
\* after a fast check is; and a check that detects an increment is followed
\* by the sync with no yield and no pause in between.
C13_YieldDiscipline ==
    /\ [](\A fr \in Runs :
             /\ fr.checks = 0 => (fr.yields = 0 /\ fr.sleeps = 0)
             /\ fr.pc = "doEvents" =>
                   /\ fr.yields = fr.checks
                   /\ fr.sleeps = IF fr.phase = "slow" THEN fr.slow - 1 ELSE 0
             /\ (fr.pc = "done" /\ fr.hitAt # 0) =>
                   /\ fr.checks = fr.hitAt
                   /\ fr.yields = fr.checks - 1
                   /\ fr.sleeps = IF fr.slow > 0 THEN fr.slow - 1 ELSE 0
                   /\ fr.syncs = 1
             /\ (fr.pc = "done" /\ fr.hitAt = 0 /\ fr.checks > 0) =>
                   /\ fr.yields = fr.checks
                   /\ fr.sleeps = fr.slow)
    /\ [][(frames # << >> /\ frames' # << >> /\ frames' # frames) =>
             /\ frames'[1].checks - frames[1].checks \in {0, 1}
             /\ frames'[1].yields - frames[1].yields \in {0, 1}
             /\ frames'[1].yields > frames[1].yields =>
                   frames'[1].checks > frames[1].checks
             /\ frames'[1].sleeps - frames[1].sleeps =
                   IF frames[1].phase = "slow" THEN 1 ELSE 0]_vars

C13_Witness ==
    \E fr \in Runs :
        /\ fr.pc = "done"
        /\ fr.out = "detected"
        /\ fr.hitAt = 11
        /\ fr.yields = 10
        /\ fr.sleeps = 2

\* C14: when the documentSaved callback finds no active document (there is
\* none, or reading it raises) or finds that the active document has no data
\* file, it calls sync_version_parameter exactly once and returns without a
\* check, a yield or a sleep, and _last_known_version is what it was;
\* this holds whatever host call fails during the sync.
C14_NoCloudFile ==
    (/\ u.op = "DocumentSavedHandler.notify"
     /\ \/ IsNone(u.in.h.active)
        \/ "activeDocument" \in u.in.F
        \/ (IsNone(u.in.h.cloud[u.in.h.active[1]]) /\ "dataFile" \notin u.in.F)) =>
        /\ u.out.frame.pc = "done"
        /\ u.out.frame.syncs = 1
        /\ u.out.frame.checks = 0
        /\ u.out.frame.yields = 0
        /\ u.out.frame.sleeps = 0
        /\ u.out.lkv = u.in.h.lkv

C14_Witness ==
    /\ u.op = "DocumentSavedHandler.notify"
    /\ u.in.F = {}
    /\ u.in.h.active = Some("d1")
    /\ u.in.h.product = "Design"
    /\ IsNone(u.in.h.cloud["d1"])
    /\ u.in.h.lkv = Some(MaxVersion)
    /\ u.out.frame.syncs = 1
    /\ u.out.frame.writes = 1
    /\ u.out.lkv = Some(MaxVersion)

\* the cloud version of document d in host h, 0 when it has no data file
VersionIn(h, d) == IF IsNone(h.cloud[d]) THEN 0 ELSE h.cloud[d][1].versionNumber

\* C15: sync_version_parameter makes no host call on any design and leaves
\* every design's parameters as they were when there is no active document
\* or the active product is no design.  Otherwise, when no host call fails,
\* it writes: the active document's design then has exactly one
\* "FusionVersion", whose expression is the document's cloud version, 0 for
\* a document without a data file.  In every case the designs of the other
\* documents are untouched, and a write made while the version cannot be
\* read puts 0.
C15_SyncFrame ==
    u.op = "sync_version_parameter" =>
        LET h == u.in.h
            F == u.in.F
            out == u.out
        IN /\ (IsNone(h.active) \/ h.product # "Design") =>
                 (out.params = h.params /\ out.calls = << >>)
           /\ \A d \in Docs : h.active # Some(d) => out.params[d] = h.params[d]
           /\ (~IsNone(h.active) /\ h.product = "Design" /\ F = {}) =>
                 (Wrote(out.calls) /\ ~out.exc)
           /\ Wrote(out.calls) =>
                 /\ Cardinality(Named(out.params[h.active[1]], PARAM_NAME)) = 1
                 /\ \A k \in Named(out.params[h.active[1]], PARAM_NAME) :
                       out.params[h.active[1]][k].expression =
                           PyStr(IF F \cap {"dataFile", "versionNumber"} = {}
                                 THEN VersionIn(h, h.active[1]) ELSE 0)

C15_Witness ==
    /\ u.op = "sync_version_parameter"
    /\ u.in.F = {}
    /\ u.in.h.active = Some("d2")
    /\ u.in.h.product = "Design"
    /\ u.in.h.params["d2"] = << Param(PARAM_NAME, << "1" >>, unit_type) >>
    /\ u.out.params["d2"] = << Param(PARAM_NAME, << "0" >>, unit_type) >>
    /\ u.out.params["d1"] = u.in.h.params["d1"]

\* C16: the step of a documentSaved run that ends it on a detected increment
\* leaves _last_known_version equal to the detected version, which is
\* strictly greater than the baseline it was compared with (the value of
\* _last_known_version before the step, or 0); the step that ends a run
\* after all 38 checks or on the no-data-file path leaves
\* _last_known_version as it was, and so does a run that ends in its except
\* clause.
C16_BaselineAfterRun ==
    [][(frames' # frames /\ frames' # << >>) =>
          /\ frames'[1].out = "detected" =>
                /\ lkv' = Some(frames'[1].hitV)
                /\ frames'[1].base = Baseline(Host)
                /\ frames'[1].hitV > frames'[1].base
          /\ frames'[1].out \in {"exhausted", "nofile", "error"} => lkv' = lkv]_vars

C16_Witness ==
    \E fr \in Runs :
        /\ fr.out = "detected"
        /\ fr.base = 1
        /\ fr.hitV = MaxVersion
        /\ lkv = Some(MaxVersion)

\* C17 (as claimed): while a documentSaved run is in progress and has
\* yielded to the host, no step of another callback changes the baseline
\* (_last_known_version) the run's next checks compare with.
C17_BaselineIsolated ==
    [][(frames # << >> /\ frames' = frames) => lkv' = lkv]_vars

\* C18 (as claimed): a step of a documentSaved run that changes a design's
\* parameters changes those of the document the run polls.
C18_WritesToPolled ==
    [][(frames' # frames /\ frames' # << >>) =>
          \A d \in Docs : params'[d] # params[d] => frames'[1].doc = Some(d)]_vars

\* C18 (amended): a step of a documentSaved run that changes a design's
\* parameters changes those of the document that is active at that moment,
\* and of no other; that is the polled document when it is still the active
\* one, and after the host has changed the active document during a yield
\* the polled document's design is left as it was.
C18_WritesToActive ==
    [][(frames' # frames /\ frames' # << >>) =>
          \A d \in Docs :
              /\ params'[d] # params[d] => active = Some(d)
              /\ (frames'[1].doc = Some(d) /\ active # Some(d)) =>
                    params'[d] = params[d]]_vars

C18_Witness ==
    \E fr \in Runs :
        /\ fr.doc = Some("d1")
        /\ fr.out = "detected"
        /\ fr.writes = 1
        /\ active = Some("d2")
        /\ Named(params["d2"], PARAM_NAME) # {}
        /\ Named(params["d1"], PARAM_NAME) = {}

====
